---- MODULE Spec2Model ----
(***************************************************************************)
(* MerchantGraphAnalyzer (backend/services/graph_model.py): the in-memory  *)
(* user<->merchant interaction graph, the directed transaction-flow graph, *)
(* the risk cache and the risk analysis computed over them.                *)
(*                                                                         *)
(* Conventions of the model                                                *)
(*  - An identity (a Python str) is a sequence of tokens; the tokens are   *)
(*    single characters, except that the words "merchant", "risk" and      *)
(*    "none" are one token each.  A cache key is the token sequence that   *)
(*    the f-string of analyze_merchant_risk builds, and `x in key` is the  *)
(*    contiguous-subsequence test.                                         *)
(*  - A datetime is an integer number of seconds.                          *)
(*  - A risk score is an integer number of tenths (0.3 is 3, 1.0 is 10).   *)
(*  - A float metric is kept as the integers it is computed from.          *)
(***************************************************************************)
EXTENDS Integers, Sequences, FiniteSets, TLC

(***************************************************************************)
(* Bounds of the model.                                                    *)
(***************************************************************************)
MaxCalls == 2
MaxCacheEntries == 1
MaxTicks == 1
Preload == 21
BurstCalls == 25
ClusterCalls == 9
ClusterUsers == 8
RelationshipCalls == 3

(***************************************************************************)
(* Program constants (MerchantGraphAnalyzer.__init__ and literals).        *)
(***************************************************************************)
cache_ttl == 3600
velocity_threshold == 100
SecondsPerDay == 86400
SecondsPerHour == 3600
BetweennessSamples == 100
BetweennessNodeLimit == 1000
SmallClusterSize == 10
ChainThreshold == 5
BurstTransactions == 20
FrequentTransactions == 50
LargeCommunity == 50
CircularPathLimit == 5

(***************************************************************************)
(* Identities and inputs.                                                  *)
(***************************************************************************)
M1 == <<"M", "1">>
M10 == <<"M", "1", "0">>
U1 == <<"U", "1">>
M1_U1 == <<"M", "1", "_", "U", "1">>
U1_none == <<"U", "1", "_", "none">>
NoneStr == <<"none">>
\* user_id = None (the default) or "": both are falsy in `user_id or 'none'`
NoUser == << >>

\* identities passed to add_transaction_edge: any string may come in either role
UserIds == {U1, M1}
MerchantIds == {M1, M10, U1}
Amounts == {-1, 2}
Times == {0, 30}
\* arguments passed to analyze_merchant_risk
QueryMerchants == {M1, M1_U1}
QueryUsers == {NoUser, U1, M1, U1_none}
\* an identity used only for users, ones used only for merchants, and the amounts
\* a payment can have
ValidUserIds == {U1}
ValidMerchantIds == {M1, M10}
ValidAmounts == {a \in Amounts : a >= 0}
\* how far the wall clock (datetime.utcnow) moves between two operations
TickSteps == {3600, 86400}

Max(a, b) == IF a >= b THEN a ELSE b
Min(a, b) == IF a <= b THEN a ELSE b

RECURSIVE SumSeq(_)
SumSeq(s) == IF s = << >> THEN 0 ELSE Head(s) + SumSeq(Tail(s))

RECURSIVE SumSquares(_)
SumSquares(s) == IF s = << >> THEN 0 ELSE Head(s) * Head(s) + SumSquares(Tail(s))

\* Python's `s in t` for two strings
IsSubstring(s, t) ==
    \E i \in 0..(Len(t) - Len(s)) : SubSeq(t, i + 1, i + Len(s)) = s

VARIABLES
    merchant_graph_nodes,   \* nx.Graph node -> attribute dict
    merchant_graph_edges,   \* nx.Graph edge {a, b} -> attribute dict
    transaction_graph,      \* nx.DiGraph arc <<user, merchant>> -> attribute dict
    risk_cache,             \* cache key -> [result, timestamp]
    now,                    \* datetime.utcnow()
    history,                \* amounts of the calls per <<user, merchant>>, in call order
    seen,                   \* node -> the timestamps written to its first_seen/last_seen
    recorded,               \* edge {a, b} -> the timestamps of the calls recorded on it
    computed_for,           \* cache key -> the <<merchant, user>> it was computed for
    ncalls, nticks,         \* calls of add_transaction_edge, moves of the clock
    pending,                \* caller -> the call it is in the middle of
    mutations,              \* merchant -> calls of add_transaction_edge that wrote the graph
    completions,            \* merchant -> calls of add_transaction_edge that returned
    basis,                  \* cache key -> mutations[merchant] its result was computed from
    active_connections,     \* WebSocketManager instance -> its active_connections
    background_tasks,       \* the broadcasts handed to BackgroundTasks.add_task
    sent,                   \* client -> the alerts sent on its connection
    owed,                   \* <<client, alert>>: connected when alert was raised, and since
    nalerts,                \* alerts raised so far
    ingested,               \* <<user, merchant>> of the transactions create_transaction accepted
    spell_status,           \* run_id -> the status column of its SpellRun row
    spell_request           \* run_id -> where the run_spell request that created it is

\* the callers running step by step, and their observer
concurrent_vars == <<pending, mutations, completions, basis>>

\* the alert channel, and its observer
alert_vars == <<active_connections, background_tasks, sent, owed, nalerts, ingested>>

\* the spell runs of the relational store and the requests that started them
spell_vars == <<spell_status, spell_request>>

vars == <<merchant_graph_nodes, merchant_graph_edges, transaction_graph, risk_cache,
          now, history, seen, recorded, computed_for, ncalls, nticks,
          concurrent_vars, alert_vars, spell_vars>>

(***************************************************************************)
(* add_transaction_edge                                                    *)
(***************************************************************************)
MerchantNode(timestamp) ==
    [node_type |-> "merchant", total_transactions |-> 0, total_amount |-> 0,
     unique_customers |-> {}, first_seen |-> timestamp, last_seen |-> timestamp]

UserNode(timestamp) ==
    [node_type |-> "user", total_transactions |-> 0, total_amount |-> 0,
     unique_merchants |-> {}, first_seen |-> timestamp, last_seen |-> timestamp]

\* dict[key] raises KeyError when the key is absent
HasKey(d, k) == k \in DOMAIN d

AddNode(nodes, id, data) ==
    [n \in DOMAIN nodes \cup {id} |-> IF n = id THEN data ELSE nodes[n]]

\* lines 39-55: add the nodes if they don't exist
EnsureNodes(nodes, user_id, merchant_id, timestamp) ==
    LET n1 == IF merchant_id \in DOMAIN nodes THEN nodes
              ELSE AddNode(nodes, merchant_id, MerchantNode(timestamp))
    IN  IF user_id \in DOMAIN n1 THEN n1
        ELSE AddNode(n1, user_id, UserNode(timestamp))

\* lines 61-62 and 66-67: the two counters of a node
BumpTotals(data, amount) ==
    [data EXCEPT !.total_transactions = @ + 1, !.total_amount = @ + amount]

\* a variant of NewLastSeen that keeps the latest timestamp instead of the greatest
NewLastSeenOverwrite(old, timestamp) == timestamp

\* lines 64 and 69
NewLastSeen(old, timestamp) == Max(old, timestamp)

\* lines 61-64: [nodes, raised]
UpdateMerchantData(nodes, user_id, merchant_id, amount, timestamp) ==
    LET d1 == BumpTotals(nodes[merchant_id], amount)
    IN  IF ~HasKey(d1, "unique_customers")
        THEN [nodes |-> [nodes EXCEPT ![merchant_id] = d1], raised |-> TRUE]
        ELSE [nodes |-> [nodes EXCEPT ![merchant_id] =
                            [d1 EXCEPT !.unique_customers = @ \cup {user_id},
                                       !.last_seen = NewLastSeen(@, timestamp)]],
              raised |-> FALSE]

\* a variant of UpdateUserData that does not raise on a node without
\* unique_merchants
UpdateUserDataLenient(nodes, user_id, merchant_id, amount, timestamp) ==
    LET d1 == BumpTotals(nodes[user_id], amount)
    IN  [nodes |-> [nodes EXCEPT ![user_id] =
                       [d1 EXCEPT !.last_seen = NewLastSeen(@, timestamp)]],
         raised |-> FALSE]

\* lines 66-69: [nodes, raised]
UpdateUserData(nodes, user_id, merchant_id, amount, timestamp) ==
    LET d1 == BumpTotals(nodes[user_id], amount)
    IN  IF ~HasKey(d1, "unique_merchants")
        THEN [nodes |-> [nodes EXCEPT ![user_id] = d1], raised |-> TRUE]
        ELSE [nodes |-> [nodes EXCEPT ![user_id] =
                            [d1 EXCEPT !.unique_merchants = @ \cup {merchant_id},
                                       !.last_seen = NewLastSeen(@, timestamp)]],
              raised |-> FALSE]

\* lines 73-77: an existing edge
UpdateEdge(edge_data, amount, timestamp) ==
    [edge_data EXCEPT !.transaction_count = @ + 1,
                      !.total_amount = @ + amount,
                      !.last_transaction = timestamp,
                      !.amounts = Append(@, amount)]

\* lines 79-84: a new edge
NewEdge(amount, timestamp) ==
    [transaction_count |-> 1, total_amount |-> amount,
     first_transaction |-> timestamp, last_transaction |-> timestamp,
     amounts |-> <<amount>>]

EdgeKey(a, b) == {a, b}

has_edge(edges, a, b) == EdgeKey(a, b) \in DOMAIN edges

\* lines 72-84
AddOrUpdateEdge(edges, user_id, merchant_id, amount, timestamp) ==
    LET k == EdgeKey(user_id, merchant_id)
    IN  [e \in DOMAIN edges \cup {k} |->
            IF e # k THEN edges[e]
            ELSE IF has_edge(edges, user_id, merchant_id)
                 THEN UpdateEdge(edges[k], amount, timestamp)
                 ELSE NewEdge(amount, timestamp)]

\* lines 87-90: DiGraph.add_edge replaces the attributes of an existing arc
\* (the metadata dict is carried along and never read; it is left out)
AddArc(arcs, user_id, merchant_id, amount, timestamp) ==
    LET k == <<user_id, merchant_id>>
    IN  [a \in DOMAIN arcs \cup {k} |->
            IF a = k THEN [amount |-> amount, timestamp |-> timestamp] ELSE arcs[a]]

\* line 109
CacheKeyPrefix == <<"merchant", "_", "risk", "_">>

cache_key(merchant_id, user_id) ==
    CacheKeyPrefix \o merchant_id \o <<"_">>
        \o (IF user_id = NoUser THEN NoneStr ELSE user_id)

\* a variant of KeysToRemove that takes only the keys built from the two identities
KeysToRemoveExact(cache, merchant_id, user_id) ==
    {key \in DOMAIN cache :
        key \in {cache_key(merchant_id, NoUser), cache_key(merchant_id, user_id)}}

\* lines 95-103
KeysToRemove(cache, merchant_id, user_id) ==
    {key \in DOMAIN cache : IsSubstring(merchant_id, key) \/ IsSubstring(user_id, key)}

invalidate_cache(cache, merchant_id, user_id) ==
    [key \in DOMAIN cache \ KeysToRemove(cache, merchant_id, user_id) |-> cache[key]]

\* lines 35-93: the state after the call, whether it raised (KeyError) and in
\* which block ("merchant_data": lines 61-64, "user_data": lines 66-69)
add_transaction_edge(nodes, edges, arcs, cache, user_id, merchant_id, amount, timestamp) ==
    LET n0 == EnsureNodes(nodes, user_id, merchant_id, timestamp)
        m  == UpdateMerchantData(n0, user_id, merchant_id, amount, timestamp)
        u  == UpdateUserData(m.nodes, user_id, merchant_id, amount, timestamp)
    IN  IF m.raised
        THEN [nodes |-> m.nodes, edges |-> edges, arcs |-> arcs, cache |-> cache,
              raised |-> TRUE, raised_at |-> "merchant_data"]
        ELSE IF u.raised
        THEN [nodes |-> u.nodes, edges |-> edges, arcs |-> arcs, cache |-> cache,
              raised |-> TRUE, raised_at |-> "user_data"]
        ELSE [nodes |-> u.nodes,
              edges |-> AddOrUpdateEdge(edges, user_id, merchant_id, amount, timestamp),
              arcs  |-> AddArc(arcs, user_id, merchant_id, amount, timestamp),
              cache |-> invalidate_cache(cache, merchant_id, user_id),
              raised |-> FALSE, raised_at |-> "none"]

(***************************************************************************)
(* Graph queries (networkx)                                                *)
(***************************************************************************)
neighbors(edges, v) == {w \in UNION DOMAIN edges : EdgeKey(v, w) \in DOMAIN edges}

\* Graph.degree: a self-loop counts twice
degree(edges, v) ==
    Cardinality(neighbors(edges, v)) + (IF v \in neighbors(edges, v) THEN 1 ELSE 0)

RECURSIVE Grow(_, _)
Grow(edges, component) ==
    LET next == component \cup UNION {neighbors(edges, v) : v \in component}
    IN  IF next = component THEN component ELSE Grow(edges, next)

\* nx.node_connected_component
node_connected_component(edges, v) == Grow(edges, {v})

\* nx.connected_components
connected_components(nodes, edges) ==
    {node_connected_component(edges, v) : v \in DOMAIN nodes}

\* nx.clustering(G, v) as <<numerator, denominator>>; <<0, 1>> below degree 2
local_clustering(edges, v) ==
    LET nb == neighbors(edges, v) \ {v}
        d  == Cardinality(nb)
        links == {e \in DOMAIN edges : Cardinality(e) = 2 /\ e \subseteq nb}
    IN  IF d < 2 THEN <<0, 1>> ELSE <<2 * Cardinality(links), d * (d - 1)>>

\* a path in the DiGraph from a to b, with the number of nodes on a shortest one
RECURSIVE ShortestPathLen(_, _, _, _, _)
ShortestPathLen(arcs, frontier, visited, target, len) ==
    IF target \in frontier THEN len
    ELSE LET next == {a[2] : a \in {x \in DOMAIN arcs : x[1] \in frontier}} \ visited
         IN  IF next = {} THEN 0
             ELSE ShortestPathLen(arcs, next, visited \cup next, target, len + 1)

flow_nodes(arcs) == {a[1] : a \in DOMAIN arcs} \cup {a[2] : a \in DOMAIN arcs}

(***************************************************************************)
(* The sub-analyses.  Each returns what the method returns, with `raised`  *)
(* telling whether an exception was raised inside it (and caught by it).   *)
(* `fault` names the stage at which a computation raises for a reason      *)
(* outside the model ("none": no such failure).                            *)
(***************************************************************************)
EmptyMetrics == [empty |-> TRUE]

\* a variant of Degraded that reports medium risk instead of none
DegradedMedium(raised) ==
    [metrics |-> EmptyMetrics, risk_contribution |-> 5, factors |-> << >>,
     raised |-> raised]

\* lines 236, 282 and 332: what a sub-analysis returns from its except clause
\* (and line 288, with raised = FALSE)
Degraded(raised) ==
    [metrics |-> EmptyMetrics, risk_contribution |-> 0, factors |-> << >>,
     raised |-> raised]

\* line 202: random.sample(nodes, k) raises ValueError when k exceeds the node count
betweenness_raises(n) == BetweennessSamples > n

\* lines 189-236.  betweenness_high: whether the sampled betweenness estimate of
\* the merchant exceeds the threshold (read only from 100 nodes on)
analyze_centrality(nodes, edges, merchant_id, fault, betweenness_high) ==
    LET n == Cardinality(DOMAIN nodes)
        deg == degree(edges, merchant_id)
        \* degree / (n - 1) > 0.8
        high_degree == n > 1 /\ 5 * deg > 4 * (n - 1)
        high_betweenness == n > 1 /\ n < BetweennessNodeLimit /\ betweenness_high
    IN  IF fault = "centrality" \/ (n > 1 /\ n < BetweennessNodeLimit /\ betweenness_raises(n))
        THEN Degraded(TRUE)
        ELSE [metrics |-> [empty |-> FALSE,
                           degree |-> IF n > 1 THEN <<deg, n - 1>> ELSE <<0, 1>>,
                           betweenness_high |-> high_betweenness],
              risk_contribution |-> (IF high_degree THEN 3 ELSE 0)
                                    + (IF high_betweenness THEN 2 ELSE 0),
              factors |-> (IF high_degree THEN <<"High degree centrality">> ELSE << >>)
                          \o (IF high_betweenness THEN <<"High betweenness centrality">>
                              ELSE << >>),
              raised |-> FALSE]

\* lines 238-282
analyze_clustering(nodes, edges, merchant_id, fault) ==
    LET c == local_clustering(edges, merchant_id)
        community == node_connected_component(edges, merchant_id)
        size == IF merchant_id \in DOMAIN nodes THEN Cardinality(community) ELSE 0
        \* c > 0.9 and c > 0.7
        suspicious == 10 * c[1] > 9 * c[2]
        tight == size > LargeCommunity /\ 10 * c[1] > 7 * c[2]
    IN  IF fault = "clustering"
        THEN Degraded(TRUE)
        ELSE [metrics |-> [empty |-> FALSE,
                           local_clustering |-> c,
                           global_clustering |->
                               {<<v, local_clustering(edges, v)>> : v \in
                                   {w \in DOMAIN nodes : local_clustering(edges, w)[1] > 0}},
                           community_size |-> size,
                           total_communities |->
                               Cardinality(connected_components(nodes, edges))],
              risk_contribution |-> (IF suspicious THEN 2 ELSE 0) + (IF tight THEN 3 ELSE 0),
              factors |-> (IF suspicious THEN <<"Suspicious clustering pattern">> ELSE << >>)
                          \o (IF tight THEN <<"Large tight community">> ELSE << >>),
              raised |-> FALSE]

\* lines 293-295: the observed span in seconds, one hour when it is zero
time_span_seconds(data) ==
    IF data.last_seen - data.first_seen = 0 THEN SecondsPerHour
    ELSE data.last_seen - data.first_seen

\* lines 284-332
analyze_velocity(nodes, merchant_id, fault) ==
    LET data == nodes[merchant_id]
        span == time_span_seconds(data)
        total == data.total_transactions
        \* total / (span / 3600) > threshold
        high_velocity == total * SecondsPerHour > velocity_threshold * span
        new_active == span < 24 * SecondsPerHour /\ total * SecondsPerHour > 10 * span
        low_diversity == 10 * Cardinality(data.unique_customers) < total
    IN  IF merchant_id \notin DOMAIN nodes THEN Degraded(FALSE)
        ELSE IF fault = "velocity" \/ ~HasKey(data, "unique_customers") \/ total = 0
        THEN Degraded(TRUE)
        ELSE [metrics |-> [empty |-> FALSE,
                           time_span_seconds |-> span,
                           total_transactions |-> total,
                           total_amount |-> data.total_amount,
                           unique_customers |-> Cardinality(data.unique_customers)],
              risk_contribution |-> (IF high_velocity THEN 3 ELSE 0)
                                    + (IF new_active THEN 2 ELSE 0)
                                    + (IF low_diversity THEN 2 ELSE 0),
              factors |-> (IF high_velocity THEN <<"High transaction velocity">> ELSE << >>)
                          \o (IF new_active THEN <<"High activity for new merchant">>
                              ELSE << >>)
                          \o (IF low_diversity THEN <<"Low customer diversity">> ELSE << >>),
              raised |-> FALSE]

\* a variant of detect_circular_pattern that follows the arcs from the user to the
\* merchant
detect_circular_pattern_forward(arcs, user_id, merchant_id) ==
    /\ merchant_id \in flow_nodes(arcs)
    /\ user_id \in flow_nodes(arcs)
    /\ LET len == ShortestPathLen(arcs, {user_id}, {user_id}, merchant_id, 1)
       IN  len > 0 /\ len <= CircularPathLimit

\* lines 377-386: NodeNotFound is swallowed by the bare except
detect_circular_pattern(arcs, user_id, merchant_id) ==
    /\ merchant_id \in flow_nodes(arcs)
    /\ user_id \in flow_nodes(arcs)
    /\ LET len == ShortestPathLen(arcs, {merchant_id}, {merchant_id}, user_id, 1)
       IN  len > 0 /\ len <= CircularPathLimit

\* a variant of detect_burst_pattern that compares the span in seconds with 1
detect_burst_pattern_seconds(nodes, merchant_id) ==
    /\ merchant_id \in DOMAIN nodes
    /\ nodes[merchant_id].last_seen - nodes[merchant_id].first_seen < 1
    /\ nodes[merchant_id].total_transactions > BurstTransactions

\* lines 388-400
detect_burst_pattern(nodes, merchant_id) ==
    /\ merchant_id \in DOMAIN nodes
    /\ nodes[merchant_id].last_seen - nodes[merchant_id].first_seen < SecondsPerHour
    /\ nodes[merchant_id].total_transactions > BurstTransactions

\* lines 402-417
detect_merchant_chain(nodes, edges, merchant_id) ==
    LET users == {w \in neighbors(edges, merchant_id) : nodes[w].node_type = "user"}
        merchant_neighbors ==
            {x \in UNION {neighbors(edges, w) : w \in users} :
                nodes[x].node_type = "merchant" /\ x # merchant_id}
    IN  Cardinality(merchant_neighbors) + 1

\* lines 419-438
is_isolated_cluster(edges, merchant_id) ==
    LET component == node_connected_component(edges, merchant_id)
        external_connections ==
            Cardinality({<<v, w>> \in component \X UNION DOMAIN edges :
                            w \in neighbors(edges, v) /\ w \notin component})
    IN  Cardinality(component) < SmallClusterSize /\ external_connections < 2

\* lines 334-375: the anomaly types found, in order; an exception raised by the
\* burst check ends the detection with what was found before it
detect_network_anomalies(nodes, edges, arcs, merchant_id, user_id, fault) ==
    LET circular == IF user_id # NoUser /\ detect_circular_pattern(arcs, user_id, merchant_id)
                    THEN <<"circular_transactions">> ELSE << >>
        burst == IF detect_burst_pattern(nodes, merchant_id)
                 THEN <<"transaction_burst">> ELSE << >>
        chain == IF detect_merchant_chain(nodes, edges, merchant_id) > ChainThreshold
                 THEN <<"merchant_chain">> ELSE << >>
        isolated == IF is_isolated_cluster(edges, merchant_id)
                    THEN <<"isolated_cluster">> ELSE << >>
    IN  IF fault = "burst"
        THEN [anomalies |-> circular, raised |-> TRUE]
        ELSE [anomalies |-> circular \o burst \o chain \o isolated, raised |-> FALSE]

\* a variant of analyze_user_merchant_relationship that also takes an edge with a
\* single transaction for a new relationship
analyze_user_merchant_relationship_first(edges, user_id, merchant_id) ==
    IF \/ ~has_edge(edges, user_id, merchant_id)
       \/ edges[EdgeKey(user_id, merchant_id)].transaction_count = 1
    THEN [risk_contribution |-> 1, factors |-> <<"New merchant relationship">>]
    ELSE [risk_contribution |-> 0, factors |-> << >>]

\* lines 440-476
analyze_user_merchant_relationship(edges, user_id, merchant_id) ==
    IF ~has_edge(edges, user_id, merchant_id)
    THEN [risk_contribution |-> 1, factors |-> <<"New merchant relationship">>]
    ELSE LET edge_data == edges[EdgeKey(user_id, merchant_id)]
             n == Len(edge_data.amounts)
             frequent == edge_data.transaction_count > FrequentTransactions
             \* np.var(amounts) > avg_amount * 2, multiplied by n * transaction_count
             variable ==
                 /\ n > 1
                 /\ edge_data.transaction_count
                        * (n * SumSquares(edge_data.amounts)
                           - SumSeq(edge_data.amounts) * SumSeq(edge_data.amounts))
                    > 2 * n * n * edge_data.total_amount
         IN  [risk_contribution |-> (IF frequent THEN 2 ELSE 0) + (IF variable THEN 1 ELSE 0),
              factors |-> (IF frequent THEN <<"Very frequent transactions">> ELSE << >>)
                          \o (IF variable THEN <<"Highly variable transaction amounts">>
                              ELSE << >>)]

(***************************************************************************)
(* analyze_merchant_risk                                                   *)
(***************************************************************************)
\* timedelta.seconds: the seconds field of the normalised (days, seconds) pair
timedelta_seconds(delta) == delta % SecondsPerDay

\* line 114: the age test of a cache entry
cache_fresh(entry, clock) == timedelta_seconds(clock - entry.timestamp) < cache_ttl

\* a variant of Normalize without the clamp
NormalizeUnclamped(score) == score

\* line 168
Normalize(score) == Min(10, Max(0, score))

\* lines 129-132
UnknownMerchantResult(merchant_id) ==
    [merchant_id |-> merchant_id, risk_score |-> 1, factors |-> <<"Unknown merchant">>,
     centrality_metrics |-> EmptyMetrics, clustering_metrics |-> EmptyMetrics,
     velocity_metrics |-> EmptyMetrics, network_anomalies |-> << >>]

\* lines 180-187
AnalysisErrorResult(merchant_id) ==
    [merchant_id |-> merchant_id, risk_score |-> 5, factors |-> <<"Analysis error">>,
     error |-> TRUE]

SubResult(r) ==
    [metrics |-> r.metrics, risk_contribution |-> r.risk_contribution, factors |-> r.factors]

\* lines 117-178, for a merchant that has a node: the result before it is cached
\* (the recommendations, derived from risk_score and factors alone, are left out)
\* a variant of anomaly_risk in which an isolated_cluster anomaly, of low
\* severity, counts nothing
anomaly_risk_by_severity(anomalies) ==
    Len(SelectSeq(anomalies, LAMBDA type : type # "isolated_cluster"))

\* line 158: len(anomalies) * 0.1
anomaly_risk(anomalies) == Len(anomalies)

ComputeRisk(nodes, edges, arcs, merchant_id, user_id, fault, betweenness_high) ==
    LET centrality == analyze_centrality(nodes, edges, merchant_id, fault, betweenness_high)
        clustering == analyze_clustering(nodes, edges, merchant_id, fault)
        velocity   == analyze_velocity(nodes, merchant_id, fault)
        anomalies  == detect_network_anomalies(nodes, edges, arcs, merchant_id, user_id, fault)
        relationship ==
            IF user_id # NoUser
            THEN analyze_user_merchant_relationship(edges, user_id, merchant_id)
            ELSE [risk_contribution |-> 0, factors |-> << >>]
        raw == centrality.risk_contribution + clustering.risk_contribution
               + velocity.risk_contribution + anomaly_risk(anomalies.anomalies)
               + relationship.risk_contribution
        caught == (IF centrality.raised THEN {"centrality"} ELSE {})
                  \cup (IF clustering.raised THEN {"clustering"} ELSE {})
                  \cup (IF velocity.raised THEN {"velocity"} ELSE {})
                  \cup (IF anomalies.raised THEN {"anomalies"} ELSE {})
    IN  IF fault = "relationship" /\ user_id # NoUser
        THEN [result |-> AnalysisErrorResult(merchant_id), caught |-> caught,
              failed |-> TRUE, raw |-> 0]
        ELSE [result |->
                 [merchant_id |-> merchant_id,
                  risk_score |-> Normalize(raw),
                  factors |-> centrality.factors \o clustering.factors
                              \o velocity.factors \o relationship.factors,
                  centrality_metrics |-> SubResult(centrality),
                  clustering_metrics |-> SubResult(clustering),
                  velocity_metrics |-> SubResult(velocity),
                  network_anomalies |-> anomalies.anomalies],
              caught |-> caught, failed |-> FALSE, raw |-> raw]

\* lines 105-187: what the call returns and the cache after it
analyze_merchant_risk(nodes, edges, arcs, cache, clock, merchant_id, user_id, fault, betweenness_high) ==
    LET key == cache_key(merchant_id, user_id)
    IN  IF key \in DOMAIN cache /\ cache_fresh(cache[key], clock)
        THEN [result |-> cache[key].result, cache |-> cache, branch |-> "cached",
              caught |-> {}, raw |-> 0]
        ELSE IF merchant_id \notin DOMAIN nodes
        THEN [result |-> UnknownMerchantResult(merchant_id), cache |-> cache,
              branch |-> "unknown", caught |-> {}, raw |-> 0]
        ELSE LET c == ComputeRisk(nodes, edges, arcs, merchant_id, user_id,
                                  fault, betweenness_high)
             IN  IF c.failed
                 THEN [result |-> c.result, cache |-> cache, branch |-> "error",
                       caught |-> c.caught, raw |-> 0]
                 ELSE [result |-> c.result,
                       cache |-> [k \in DOMAIN cache \cup {key} |->
                                    IF k = key
                                    THEN [result |-> c.result, timestamp |-> clock]
                                    ELSE cache[k]],
                       branch |-> "computed", caught |-> c.caught, raw |-> c.raw]

(***************************************************************************)
(* The state machine                                                       *)
(***************************************************************************)
Empty == << >>

\* the stage at which a computation fails for a reason outside the model
Faults == {"none", "centrality", "clustering", "velocity", "burst", "relationship"}

\* the failures taken as steps: the one the method does not absorb.  The absorbed
\* ones are examined on every reachable state through Analyze
StepFaults == {"none", "relationship"}

\* the analyzer after k calls add_transaction_edge(U1, M1, 2, 0) on a new one (a
\* caller that sees a call raise makes no further call)
RECURSIVE Replay(_)
Replay(k) ==
    IF k = 0
    THEN [nodes |-> Empty, edges |-> Empty, arcs |-> Empty, cache |-> Empty,
          raised |-> FALSE, raised_at |-> "none"]
    ELSE LET s == Replay(k - 1)
         IN  IF s.raised
             THEN s
             ELSE add_transaction_edge(s.nodes, s.edges, s.arcs, s.cache, U1, M1, 2, 0)

\* the two callers that share one analyzer: one calls analyze_merchant_risk, the
\* other add_transaction_edge
Callers == {"analysis", "record"}

\* a caller between two calls
Idle == [pc |-> "idle", merchant_id |-> NoUser, user_id |-> NoUser,
         result |-> Empty, basis |-> 0]

\* the two WebSocketManager objects of the process: the one main.py creates and
\* serves /ws/alerts with, and the one services/websocket_manager.py creates at
\* import, which the routers import
Managers == {"main", "services"}

\* the clients that may open /ws/alerts
Clients == {"c1", "c2"}

InitAfter(k) ==
    /\ merchant_graph_nodes = Replay(k).nodes
    /\ merchant_graph_edges = Replay(k).edges
    /\ transaction_graph = Replay(k).arcs
    /\ risk_cache = Empty
    /\ now = 0
    /\ history = [p \in (IF k = 0 THEN {} ELSE {<<U1, M1>>}) |-> [i \in 1..k |-> 2]]
    /\ seen = [x \in (IF k = 0 THEN {} ELSE {U1, M1}) |-> {0}]
    /\ recorded = [e \in (IF k = 0 THEN {} ELSE {EdgeKey(U1, M1)}) |-> {0}]
    /\ computed_for = Empty
    /\ ncalls = 0
    /\ nticks = 0
    /\ pending = [c \in Callers |-> Idle]
    /\ mutations = [m \in ValidMerchantIds |-> 0]
    /\ completions = [m \in ValidMerchantIds |-> 0]
    /\ basis = Empty
    /\ active_connections = [w \in Managers |-> {}]
    /\ background_tasks = {}
    /\ sent = [c \in Clients |-> {}]
    /\ owed = {}
    /\ nalerts = 0
    /\ ingested = {}
    /\ spell_status = Empty
    /\ spell_request = Empty

\* MerchantGraphAnalyzer.__init__
Init == InitAfter(0)

Extend(f, k, v) == [x \in DOMAIN f \cup {k} |-> IF x = k THEN v ELSE f[x]]

\* the call add_transaction_edge(user_id, merchant_id, amount, timestamp) on the state
Record(user_id, merchant_id, amount, timestamp) ==
    add_transaction_edge(merchant_graph_nodes, merchant_graph_edges, transaction_graph,
                         risk_cache, user_id, merchant_id, amount, timestamp)

\* the call analyze_merchant_risk(merchant_id, user_id) on the state
Analyze(merchant_id, user_id, fault) ==
    analyze_merchant_risk(merchant_graph_nodes, merchant_graph_edges, transaction_graph,
                          risk_cache, now, merchant_id, user_id, fault, FALSE)

\* the nodes whose first_seen or last_seen a call r has written: the ones it
\* created (lines 45-46, 54-55) and the ones whose block it ran to the end (64, 69)
Stamped(nodes, r, user_id, merchant_id) ==
    ({user_id, merchant_id} \ DOMAIN nodes)
        \cup (IF r.raised_at # "merchant_data" THEN {merchant_id} ELSE {})
        \cup (IF r.raised_at = "none" THEN {user_id} ELSE {})

\* what the observer notes of a call r of add_transaction_edge
NoteCall(r, user_id, merchant_id, amount, timestamp) ==
    LET pair == <<user_id, merchant_id>>
    IN  /\ history' = Extend(history, pair,
                             IF pair \in DOMAIN history
                             THEN Append(history[pair], amount) ELSE <<amount>>)
        /\ seen' = LET stamped == Stamped(merchant_graph_nodes, r, user_id, merchant_id)
                   IN  [x \in DOMAIN seen \cup stamped |->
                           IF x \in stamped
                           THEN (IF x \in DOMAIN seen THEN seen[x] ELSE {})
                                \cup {timestamp}
                           ELSE seen[x]]
        /\ recorded' = IF r.raised THEN recorded
                       ELSE LET k == EdgeKey(user_id, merchant_id)
                            IN  Extend(recorded, k,
                                       (IF k \in DOMAIN recorded THEN recorded[k] ELSE {})
                                           \cup {timestamp})
        /\ ncalls' = ncalls + 1

\* one call of add_transaction_edge, with what the observer notes of it
RecordCall(user_id, merchant_id, amount, timestamp) ==
    /\ LET r == Record(user_id, merchant_id, amount, timestamp)
       IN  /\ merchant_graph_nodes' = r.nodes
           /\ merchant_graph_edges' = r.edges
           /\ transaction_graph' = r.arcs
           /\ risk_cache' = r.cache
           /\ computed_for' = [k \in DOMAIN r.cache |-> computed_for[k]]
           /\ NoteCall(r, user_id, merchant_id, amount, timestamp)
    /\ UNCHANGED <<now, nticks, concurrent_vars, alert_vars, spell_vars>>

RecordTransaction(user_id, merchant_id, amount, timestamp) ==
    /\ ncalls < MaxCalls
    /\ RecordCall(user_id, merchant_id, amount, timestamp)

\* one call of analyze_merchant_risk that leaves at most `entries` cache entries
AnalyzeCall(merchant_id, user_id, fault, betweenness_high, entries) ==
    LET r == analyze_merchant_risk(merchant_graph_nodes, merchant_graph_edges,
                                   transaction_graph, risk_cache, now,
                                   merchant_id, user_id, fault, betweenness_high)
        key == cache_key(merchant_id, user_id)
    IN  /\ Cardinality(DOMAIN r.cache) <= entries
        /\ risk_cache' = r.cache
        /\ computed_for' = IF r.branch = "computed"
                           THEN Extend(computed_for, key, <<merchant_id, user_id>>)
                           ELSE computed_for
        /\ UNCHANGED <<merchant_graph_nodes, merchant_graph_edges, transaction_graph,
                       now, history, seen, recorded, ncalls, nticks,
                       concurrent_vars, alert_vars, spell_vars>>

AnalyzeMerchantRisk(merchant_id, user_id, fault, betweenness_high) ==
    AnalyzeCall(merchant_id, user_id, fault, betweenness_high, MaxCacheEntries)

\* the wall clock moves on
Tick(d) ==
    /\ nticks < MaxTicks
    /\ now' = now + d
    /\ nticks' = nticks + 1
    /\ UNCHANGED <<merchant_graph_nodes, merchant_graph_edges, transaction_graph,
                   risk_cache, history, seen, recorded, computed_for, ncalls,
                   concurrent_vars, alert_vars, spell_vars>>

Next ==
    \/ \E user_id \in UserIds, merchant_id \in MerchantIds,
          amount \in Amounts, timestamp \in Times :
          RecordTransaction(user_id, merchant_id, amount, timestamp)
    \/ \E merchant_id \in QueryMerchants, user_id \in QueryUsers :
          \E fault \in StepFaults,
             betweenness_high \in (IF Cardinality(DOMAIN merchant_graph_nodes)
                                       >= BetweennessSamples
                                   THEN BOOLEAN ELSE {FALSE}) :
              AnalyzeMerchantRisk(merchant_id, user_id, fault, betweenness_high)
    \/ \E d \in TickSteps : Tick(d)

Spec == Init /\ [][Next]_vars

\* the analyzer when every call records a non-negative amount between an identity
\* used only for users and one used only for merchants
NextValid ==
    \/ \E user_id \in ValidUserIds, merchant_id \in ValidMerchantIds,
          amount \in ValidAmounts, timestamp \in Times :
          RecordTransaction(user_id, merchant_id, amount, timestamp)
    \/ \E merchant_id \in QueryMerchants, user_id \in QueryUsers :
          \E fault \in StepFaults,
             betweenness_high \in (IF Cardinality(DOMAIN merchant_graph_nodes)
                                       >= BetweennessSamples
                                   THEN BOOLEAN ELSE {FALSE}) :
              AnalyzeMerchantRisk(merchant_id, user_id, fault, betweenness_high)
    \/ \E d \in TickSteps : Tick(d)

SpecValid == Init /\ [][NextValid]_vars

\* the analyzer when every call records a non-negative amount, between any two
\* identities
NextNonNegative ==
    \/ \E user_id \in UserIds, merchant_id \in MerchantIds,
          amount \in ValidAmounts, timestamp \in Times :
          RecordTransaction(user_id, merchant_id, amount, timestamp)
    \/ \E merchant_id \in QueryMerchants, user_id \in QueryUsers :
          \E fault \in StepFaults,
             betweenness_high \in (IF Cardinality(DOMAIN merchant_graph_nodes)
                                       >= BetweennessSamples
                                   THEN BOOLEAN ELSE {FALSE}) :
              AnalyzeMerchantRisk(merchant_id, user_id, fault, betweenness_high)
    \/ \E d \in TickSteps : Tick(d)

SpecNonNegative == Init /\ [][NextNonNegative]_vars

\* the burst scenario: on a new analyzer, BurstCalls calls between M1 and as many
\* distinct users, with timestamps inside one window of 59 minutes (constant up to
\* one change, upward or downward), and then the analysis of M1
DigitStr(d) == <<"0", "1", "2", "3", "4", "5", "6", "7", "8", "9">>[d + 1]

UserNo(i) == IF i < 10 THEN <<"U", DigitStr(i)>>
             ELSE <<"U", DigitStr(i \div 10), DigitStr(i % 10)>>

Window == {0, 1800, 59 * 60}

BurstRecord ==
    /\ ncalls < BurstCalls
    /\ \E timestamp \in Window :
          /\ IF ncalls = 0 THEN TRUE
             ELSE IF Cardinality(seen[M1]) = 1 THEN TRUE
             ELSE timestamp
                    = merchant_graph_edges[EdgeKey(UserNo(ncalls), M1)].last_transaction
          /\ RecordCall(UserNo(ncalls + 1), M1, 2, timestamp)

BurstAnalyze ==
    /\ ncalls = BurstCalls
    /\ AnalyzeMerchantRisk(M1, NoUser, "none", FALSE)

NextBurst == BurstRecord \/ BurstAnalyze

SpecBurst == Init /\ [][NextBurst]_vars

\* the cluster scenario: on a new analyzer, calls that attach one new user after
\* the other to M1 or to M2, then calls by the first user, and analyses of the two
\* merchants at any time
M2 == <<"M", "2">>

ClusterRecord ==
    /\ ncalls < ClusterCalls
    /\ \E user_id \in {UserNo(ncalls + 1)}
                       \cup (IF ncalls >= ClusterUsers THEN {UserNo(1)} ELSE {}),
          merchant_id \in {M1, M2} :
          RecordCall(user_id, merchant_id, 2, 0)

ClusterAnalyze ==
    \E merchant_id \in {M1, M2} : AnalyzeMerchantRisk(merchant_id, NoUser, "none", FALSE)

NextCluster == ClusterRecord \/ ClusterAnalyze

SpecCluster == Init /\ [][NextCluster]_vars

\* the relationship scenario: on a new analyzer, calls between the users U8, U9 and
\* the merchant M2, and analyses of M2 with or without a user at any time
RelationshipUsers == {UserNo(8), UserNo(9)}

RelationshipRecord ==
    /\ ncalls < RelationshipCalls
    /\ \E user_id \in RelationshipUsers, amount \in Amounts, timestamp \in Times :
          RecordCall(user_id, M2, amount, timestamp)

RelationshipAnalyze ==
    \E user_id \in {NoUser} \cup RelationshipUsers :
        AnalyzeMerchantRisk(M2, user_id, "none", FALSE)

NextRelationship == RelationshipRecord \/ RelationshipAnalyze

SpecRelationship == Init /\ [][NextRelationship]_vars

\* the same analyzer, started either new or with Preload transactions recorded
InitPreloaded == \E k \in {0, Preload} : InitAfter(k)

SpecPreloaded == InitPreloaded /\ [][Next]_vars

(***************************************************************************)
(* Properties                                                              *)
(***************************************************************************)
MinOf(S) == CHOOSE x \in S : \A y \in S : x <= y
MaxOf(S) == CHOOSE x \in S : \A y \in S : x >= y

Calls == UserIds \X MerchantIds \X Amounts \X Times
Queries == QueryMerchants \X QueryUsers \X Faults

\* the contributions a cached result shows, with the relationship's read off its factors
ShownScore(result) ==
    LET has(f) == \E i \in 1..Len(result.factors) : result.factors[i] = f
    IN  result.centrality_metrics.risk_contribution
        + result.clustering_metrics.risk_contribution
        + result.velocity_metrics.risk_contribution
        + Len(result.network_anomalies)
        + (IF has("New merchant relationship") THEN 1 ELSE 0)
        + (IF has("Very frequent transactions") THEN 2 ELSE 0)
        + (IF has("Highly variable transaction amounts") THEN 1 ELSE 0)

\* C1: a step that changes the node data of identity X leaves no cache entry that
\* was computed for X (as its merchant or as its user), whether the call of
\* add_transaction_edge returned or raised.
C1_NoEntrySurvivesMutation ==
    [][\A x \in DOMAIN merchant_graph_nodes' :
          (x \notin DOMAIN merchant_graph_nodes
              \/ merchant_graph_nodes'[x] # merchant_graph_nodes[x])
          => \A key \in DOMAIN risk_cache' :
                 x # computed_for'[key][1] /\ x # computed_for'[key][2]]_vars

\* C2: in every reachable state, whatever analyze_merchant_risk returns (from the
\* cache, for an unknown merchant, computed, or from its except clause) has a
\* risk_score between 0.0 and 1.0.
C2_ScoreWithinUnitInterval ==
    \A q \in Queries :
        LET r == Analyze(q[1], q[2], q[3])
        IN  r.result.risk_score >= 0 /\ r.result.risk_score <= 10

\* a cached result whose contributions add up to more than 1.0
C2_Witness ==
    \E key \in DOMAIN risk_cache :
        /\ ShownScore(risk_cache[key].result) > 10
        /\ Analyze(computed_for[key][1], computed_for[key][2], "none").branch = "cached"

\* C3: in every reachable state, add_transaction_edge with a non-negative amount
\* completes without raising, for every user_id and merchant_id.
C3_ValidInputNeverRaises ==
    \A c \in Calls : c[3] >= 0 => ~Record(c[1], c[2], c[3], c[4]).raised

\* C4: in every reachable state, add_transaction_edge with a negative amount raises
\* and leaves the nodes, the edges and the flow arcs as they were.
C4_NegativeAmountRejected ==
    \A c \in Calls :
        c[3] < 0 =>
            LET r == Record(c[1], c[2], c[3], c[4])
            IN  /\ r.raised
                /\ r.nodes = merchant_graph_nodes
                /\ r.edges = merchant_graph_edges
                /\ r.arcs = transaction_graph

\* C5: after the calls of add_transaction_edge made for a (user, merchant) pair,
\* the edge between the two holds their amounts in call order, their number and
\* their sum; and every edge has transaction_count = len(amounts) >= 1 and
\* total_amount = sum(amounts).
C5_EdgeAccumulation ==
    /\ \A pair \in DOMAIN history :
          /\ has_edge(merchant_graph_edges, pair[1], pair[2])
          /\ LET e == merchant_graph_edges[EdgeKey(pair[1], pair[2])]
             IN  /\ e.amounts = history[pair]
                 /\ e.transaction_count = Len(history[pair])
                 /\ e.total_amount = SumSeq(history[pair])
    /\ \A k \in DOMAIN merchant_graph_edges :
          LET e == merchant_graph_edges[k]
          IN  /\ e.transaction_count = Len(e.amounts)
              /\ e.transaction_count >= 1
              /\ e.total_amount = SumSeq(e.amounts)
              /\ \E pair \in DOMAIN history : k = EdgeKey(pair[1], pair[2])

\* C6: every node's first_seen is the least and its last_seen the greatest of the
\* timestamps of the transactions that touched it.
C6_FirstAndLastSeenAreExtremes ==
    \A x \in DOMAIN seen :
        /\ merchant_graph_nodes[x].first_seen = MinOf(seen[x])
        /\ merchant_graph_nodes[x].last_seen = MaxOf(seen[x])

\* C7: in every reachable state, analyze_merchant_risk for a merchant_id without a
\* node returns risk_score 0.1 and the factors ["Unknown merchant"], for every
\* user_id.
C7_UnknownMerchantFloor ==
    \A q \in Queries :
        q[1] \notin DOMAIN merchant_graph_nodes =>
            LET r == Analyze(q[1], q[2], q[3])
            IN  r.result.risk_score = 1 /\ r.result.factors = <<"Unknown merchant">>

C9_ServedOnlyWithinTtl ==
    \A q \in Queries :
        LET key == cache_key(q[1], q[2])
        IN  (key \in DOMAIN risk_cache /\ now - risk_cache[key].timestamp >= cache_ttl)
                => Analyze(q[1], q[2], q[3]).branch # "cached"

\* C10: every node has first_seen <= last_seen.
C10_FirstSeenBeforeLastSeen ==
    \A x \in DOMAIN merchant_graph_nodes :
        merchant_graph_nodes[x].first_seen <= merchant_graph_nodes[x].last_seen

\* a node on which a transaction with an earlier timestamp was recorded later
C10_Witness ==
    \E x \in DOMAIN seen :
        /\ Cardinality(seen[x]) >= 2
        /\ merchant_graph_nodes[x].first_seen > MinOf(seen[x])

\* the call analyze_merchant_risk(merchant_id, user_id) made d seconds from now on
\* the cache a first call has left
AnalyzeLater(cache, d, merchant_id, user_id) ==
    analyze_merchant_risk(merchant_graph_nodes, merchant_graph_edges, transaction_graph,
                          cache, now + d, merchant_id, user_id, "none", FALSE)

\* C11: two consecutive calls of analyze_merchant_risk for a merchant without a
\* node, with no add_transaction_edge in between (the second made at once or some
\* time later), return the same result, and neither changes the cache; the calls
\* have no access to the graphs other than reading them.
C11_UnknownQueryIdempotent ==
    \A m \in QueryMerchants, u \in QueryUsers, d \in {0} \cup TickSteps :
        m \notin DOMAIN merchant_graph_nodes =>
            LET first  == Analyze(m, u, "none")
                second == AnalyzeLater(first.cache, d, m, u)
            IN  /\ first.result = second.result
                /\ first.cache = risk_cache
                /\ second.cache = risk_cache

HasAnomaly(result, type) ==
    \E i \in 1..Len(result.network_anomalies) : result.network_anomalies[i] = type

\* C12: after the calls of the burst scenario, analyze_merchant_risk(M1) returns
\* a network_anomalies list with a transaction_burst anomaly and a risk_score
\* greater than 0.1.
C12_BurstScenario ==
    ncalls = BurstCalls =>
        LET r == Analyze(M1, NoUser, "none")
        IN  /\ HasAnomaly(r.result, "transaction_burst")
            /\ r.result.risk_score > 1

\* the analysis made and cached after the scenario, for timestamps 59 minutes apart
C12_Witness ==
    /\ ncalls = BurstCalls
    /\ Cardinality(merchant_graph_nodes[M1].unique_customers) = BurstCalls
    /\ merchant_graph_nodes[M1].last_seen - merchant_graph_nodes[M1].first_seen = 59 * 60
    /\ cache_key(M1, NoUser) \in DOMAIN risk_cache
    /\ HasAnomaly(risk_cache[cache_key(M1, NoUser)].result, "transaction_burst")

\* the edges of the interaction graph with exactly one end in the component
CrossingEdges(edges, component) ==
    {e \in DOMAIN edges : e \cap component # {} /\ e \ component # {}}

\* C13: analyze_merchant_risk on a known merchant reports an isolated_cluster
\* anomaly exactly when the merchant's connected component has fewer than 10
\* members and fewer than 2 edges crossing out of it.
C13_IsolatedClusterExactly ==
    \A m \in {M1, M2} :
        m \in DOMAIN merchant_graph_nodes =>
            LET component == node_connected_component(merchant_graph_edges, m)
            IN  HasAnomaly(Analyze(m, NoUser, "none").result, "isolated_cluster")
                    <=> /\ Cardinality(component) < SmallClusterSize
                        /\ Cardinality(CrossingEdges(merchant_graph_edges, component)) < 2

HasFactor(result, factor) ==
    \E i \in 1..Len(result.factors) : result.factors[i] = factor

\* what the relationship check has added to the score of a computed analysis a
RelationshipContribution(a) ==
    a.raw - (a.result.centrality_metrics.risk_contribution
             + a.result.clustering_metrics.risk_contribution
             + a.result.velocity_metrics.risk_contribution
             + Len(a.result.network_anomalies))

\* the calls add_transaction_edge(u, M2, ..) of a user without a node, M2 having one
FirstCalls ==
    {c \in RelationshipUsers \X {M2} \X Amounts \X Times :
        /\ c[1] \notin DOMAIN merchant_graph_nodes
        /\ M2 \in DOMAIN merchant_graph_nodes}

\* the call analyze_merchant_risk(merchant_id, user_id) after the call rec
AnalyzeAfter(rec, merchant_id, user_id) ==
    analyze_merchant_risk(rec.nodes, rec.edges, rec.arcs, rec.cache, now,
                          merchant_id, user_id, "none", FALSE)

\* C14 as stated: after one transaction between a user seen for the first time
\* and the existing merchant M2 is recorded, analyze_merchant_risk(M2, user)
\* returns the factor "New merchant relationship" and the relationship check has
\* contributed 0.1.
C14_NewRelationshipAfterRecord ==
    \A c \in FirstCalls :
        LET after == AnalyzeAfter(Record(c[1], c[2], c[3], c[4]), c[2], c[1])
        IN  /\ HasFactor(after.result, "New merchant relationship")
            /\ RelationshipContribution(after) = 1

\* C14 as amended: analyze_merchant_risk(M2, user) returns the factor "New
\* merchant relationship", the relationship check contributing 0.1, while no
\* transaction between the user and M2 is recorded; after the first one is
\* recorded the analysis is computed anew, without the factor, the relationship
\* check contributing 0.0.
C14_NewRelationshipBeforeRecord ==
    \A c \in FirstCalls :
        LET before == Analyze(c[2], c[1], "none")
            rec    == Record(c[1], c[2], c[3], c[4])
            after  == AnalyzeAfter(rec, c[2], c[1])
        IN  /\ HasFactor(before.result, "New merchant relationship")
            /\ before.branch = "computed" => RelationshipContribution(before) = 1
            /\ ~rec.raised
            /\ after.branch = "computed"
            /\ ~HasFactor(after.result, "New merchant relationship")
            /\ RelationshipContribution(after) = 0

\* M2 with two customers, the second seen once, and the analysis of that pair
\* cached after its transaction
C14_Witness ==
    \E u \in RelationshipUsers :
        /\ has_edge(merchant_graph_edges, u, M2)
        /\ Cardinality(merchant_graph_nodes[M2].unique_customers) = 2
        /\ merchant_graph_edges[EdgeKey(u, M2)].transaction_count = 1
        /\ cache_key(M2, u) \in DOMAIN risk_cache
        /\ ~HasFactor(risk_cache[cache_key(M2, u)].result, "New merchant relationship")
        /\ FirstCalls = {}

\* the edges of the interaction graph that touch node x
IncidentEdges(edges, x) == {e \in DOMAIN edges : x \in e}

RECURSIVE SumAmounts(_, _)
SumAmounts(edges, E) ==
    IF E = {} THEN 0
    ELSE LET e == CHOOSE e \in E : TRUE
         IN  edges[e].total_amount + SumAmounts(edges, E \ {e})

RECURSIVE SumCounts(_, _)
SumCounts(edges, E) ==
    IF E = {} THEN 0
    ELSE LET e == CHOOSE e \in E : TRUE
         IN  edges[e].transaction_count + SumCounts(edges, E \ {e})

\* unique_customers of a merchant node, unique_merchants of a user node
Counterparties(data) ==
    IF HasKey(data, "unique_customers") THEN data.unique_customers
    ELSE data.unique_merchants

\* C15: in every reachable state, also after calls that raised, every node's
\* total_amount is the sum of total_amount over the edges touching it, its
\* total_transactions the sum of their transaction_count, and its counterparty
\* set its set of neighbours in the interaction graph.
C15_NodeAggregatesMatchEdges ==
    \A x \in DOMAIN merchant_graph_nodes :
        LET data == merchant_graph_nodes[x]
            E == IncidentEdges(merchant_graph_edges, x)
        IN  /\ data.total_amount = SumAmounts(merchant_graph_edges, E)
            /\ data.total_transactions = SumCounts(merchant_graph_edges, E)
            /\ Counterparties(data) = neighbors(merchant_graph_edges, x)

\* the calls of add_transaction_edge that have returned: each one has added 1 to
\* the transaction_count of exactly one edge (lines 73, 80)
SuccessfulCalls == SumCounts(merchant_graph_edges, DOMAIN merchant_graph_edges)

\* C16: the flow graph holds one arc for every call of add_transaction_edge that
\* has returned, so that between a user and a merchant there are as many arcs,
\* each with its amount and timestamp, as transactions recorded between them.
C16_OneArcPerTransaction ==
    /\ Cardinality(DOMAIN transaction_graph) = SuccessfulCalls
    /\ \A a \in DOMAIN transaction_graph :
          merchant_graph_edges[EdgeKey(a[1], a[2])].transaction_count = 1

\* C17: in every reachable state, every edge's first_transaction and
\* last_transaction bound the timestamps of the transactions recorded on it, and
\* so first_transaction <= last_transaction.
C17_EdgeWindowBoundsTimestamps ==
    \A e \in DOMAIN merchant_graph_edges :
        /\ \A t \in recorded[e] :
              /\ merchant_graph_edges[e].first_transaction <= t
              /\ t <= merchant_graph_edges[e].last_transaction
        /\ merchant_graph_edges[e].first_transaction
              <= merchant_graph_edges[e].last_transaction

\* C18: in every reachable state, a call analyze_merchant_risk(m, u), for any
\* identities m and u (u absent or not), returns a result whose merchant_id is m,
\* and when it answers from the cache the entry it returns was computed for
\* exactly the pair (m, u).
C18_CachedResultIsForThePair ==
    \A m \in QueryMerchants, u \in QueryUsers :
        LET r == Analyze(m, u, "none")
        IN  /\ r.result.merchant_id = m
            /\ r.branch = "cached" => computed_for[cache_key(m, u)] = <<m, u>>

(***************************************************************************)
(* Two callers on one analyzer, each call taken statement group by         *)
(* statement group.  The class holds no lock and takes no snapshot, so     *)
(* between two groups of one call the other caller may run any of its own. *)
(* The groups are the coarsest that separate reading the graph from        *)
(* writing the cache: a finer split only adds interleavings.               *)
(***************************************************************************)
Restrict(f, keys) == [k \in DOMAIN f \ keys |-> f[k]]

\* analyze_merchant_risk, lines 109-170: the lookup, the has_node test and the
\* computation; a call answered from the cache or for an unknown merchant returns
\* here, and so does one whose computation failed
AnalysisCompute(merchant_id, user_id) ==
    /\ pending["analysis"].pc = "idle"
    /\ LET r == Analyze(merchant_id, user_id, "none")
       IN  pending' = IF r.branch = "computed"
                      THEN [pending EXCEPT !["analysis"] =
                               [pc |-> "insert", merchant_id |-> merchant_id,
                                user_id |-> user_id, result |-> r.result,
                                basis |-> mutations[merchant_id]]]
                      ELSE pending
    /\ UNCHANGED <<merchant_graph_nodes, merchant_graph_edges, transaction_graph,
                   risk_cache, now, history, seen, recorded, computed_for, ncalls,
                   nticks, mutations, completions, basis, alert_vars, spell_vars>>

\* analyze_merchant_risk, lines 173-178: the entry is written by one assignment
AnalysisInsert ==
    /\ pending["analysis"].pc = "insert"
    /\ LET p == pending["analysis"]
           key == cache_key(p.merchant_id, p.user_id)
       IN  /\ risk_cache' = Extend(risk_cache, key,
                                   [result |-> p.result, timestamp |-> now])
           /\ computed_for' = Extend(computed_for, key, <<p.merchant_id, p.user_id>>)
           /\ basis' = Extend(basis, key, p.basis)
    /\ pending' = [pending EXCEPT !["analysis"] = Idle]
    /\ UNCHANGED <<merchant_graph_nodes, merchant_graph_edges, transaction_graph,
                   now, history, seen, recorded, ncalls, nticks, mutations,
                   completions, alert_vars, spell_vars>>

\* add_transaction_edge, lines 39-90: the writes to the two graphs; a call that
\* raises ends here
RecordMutate(user_id, merchant_id, amount, timestamp) ==
    /\ pending["record"].pc = "idle"
    /\ ncalls < MaxCalls
    /\ LET r == Record(user_id, merchant_id, amount, timestamp)
       IN  /\ merchant_graph_nodes' = r.nodes
           /\ merchant_graph_edges' = r.edges
           /\ transaction_graph' = r.arcs
           /\ NoteCall(r, user_id, merchant_id, amount, timestamp)
           /\ pending' = IF r.raised THEN pending
                         ELSE [pending EXCEPT !["record"] =
                                  [pc |-> "invalidate", merchant_id |-> merchant_id,
                                   user_id |-> user_id, result |-> Empty, basis |-> 0]]
           /\ mutations' = IF r.raised THEN mutations
                           ELSE [mutations EXCEPT ![merchant_id] = @ + 1]
    /\ UNCHANGED <<risk_cache, now, computed_for, nticks, completions, basis,
                   alert_vars, spell_vars>>

\* add_transaction_edge, line 93: _invalidate_cache, after which the call returns
RecordInvalidate ==
    /\ pending["record"].pc = "invalidate"
    /\ LET p == pending["record"]
           gone == KeysToRemove(risk_cache, p.merchant_id, p.user_id)
       IN  /\ risk_cache' = Restrict(risk_cache, gone)
           /\ computed_for' = Restrict(computed_for, gone)
           /\ basis' = Restrict(basis, gone)
           /\ completions' = [completions EXCEPT ![p.merchant_id] = @ + 1]
    /\ pending' = [pending EXCEPT !["record"] = Idle]
    /\ UNCHANGED <<merchant_graph_nodes, merchant_graph_edges, transaction_graph,
                   now, history, seen, recorded, ncalls, nticks, mutations,
                   alert_vars, spell_vars>>

NextConcurrent ==
    \/ \E merchant_id \in ValidMerchantIds, user_id \in {NoUser} \cup ValidUserIds :
          AnalysisCompute(merchant_id, user_id)
    \/ AnalysisInsert
    \/ \E user_id \in ValidUserIds, merchant_id \in ValidMerchantIds,
          amount \in ValidAmounts, timestamp \in Times :
          RecordMutate(user_id, merchant_id, amount, timestamp)
    \/ RecordInvalidate

SpecConcurrent == Init /\ [][NextConcurrent]_vars

MaxAlerts == 2
MaxRuns == 2

\* the run_id values of the SpellRun rows, in the order run_spell creates them
SpellRuns == 1..MaxRuns

\* routers/transactions.py line 59: fraud_score > 0.7 or risk_score > 0.8, in tenths
FlagFraudScore == 7
FlagGraphRisk == 8

\* fraud scores the anomaly detector may return, and flagged_transactions counts a
\* spell may report
FraudScores == {5, 8}
FlaggedCounts == {0, 3}

\* the manager whose active_connections /ws/alerts fills: main.py line 52
EndpointManager == "main"
\* the manager the routers import: `from services.websocket_manager import
\* websocket_manager`, the object created at line 225 of that module
RouterManager == "services"

SimulatedAlert == [kind |-> "simulated", id |-> 0]

\* WebSocketManager.connect, called by websocket_endpoint (main.py line 123)
Connect(c) ==
    /\ c \notin active_connections[EndpointManager]
    /\ active_connections' = [active_connections EXCEPT ![EndpointManager] = @ \cup {c}]
    /\ UNCHANGED <<merchant_graph_nodes, merchant_graph_edges, transaction_graph,
                   risk_cache, now, history, seen, recorded, computed_for, ncalls,
                   nticks, concurrent_vars, spell_vars, background_tasks, sent, owed, nalerts,
                   ingested>>

\* what is still owed once the connections of the clients `closed` are gone
StillOwed(closed) == {o \in owed : o[1] \notin closed}

\* WebSocketDisconnect in websocket_endpoint (main.py lines 137-139)
Disconnect(c) ==
    /\ c \in active_connections[EndpointManager]
    /\ active_connections' = [active_connections EXCEPT ![EndpointManager] = @ \ {c}]
    /\ owed' = StillOwed({c})
    /\ UNCHANGED <<merchant_graph_nodes, merchant_graph_edges, transaction_graph,
                   risk_cache, now, history, seen, recorded, computed_for, ncalls,
                   nticks, concurrent_vars, spell_vars, background_tasks, sent, nalerts, ingested>>

\* background_tasks.add_task(websocket_manager.broadcast_alert, alert_data) in a
\* router, with the clients connected through /ws/alerts at that moment
ScheduleAlert(kind) ==
    LET alert == [kind |-> kind, id |-> nalerts + 1]
    IN  /\ background_tasks' = background_tasks
                                 \cup {[manager |-> RouterManager, alert |-> alert]}
        /\ owed' = owed \cup {<<c, alert>> : c \in active_connections[EndpointManager]}
        /\ nalerts' = nalerts + 1

\* create_transaction (routers/transactions.py lines 26-88)
CreateTransaction(user_id, merchant_id, fraud_score) ==
    /\ nalerts < MaxAlerts
    /\ LET r == Analyze(merchant_id, user_id, "none")
           is_flagged == fraud_score > FlagFraudScore
                            \/ r.result.risk_score > FlagGraphRisk
       IN  /\ risk_cache' = r.cache
           /\ computed_for' = IF r.branch = "computed"
                              THEN Extend(computed_for, cache_key(merchant_id, user_id),
                                          <<merchant_id, user_id>>)
                              ELSE computed_for
           /\ IF is_flagged
              THEN ScheduleAlert("fraud_alert")
              ELSE UNCHANGED <<background_tasks, owed, nalerts>>
           /\ ingested' = ingested \cup {<<user_id, merchant_id>>}
    /\ UNCHANGED <<merchant_graph_nodes, merchant_graph_edges, transaction_graph,
                   now, history, seen, recorded, ncalls, nticks, concurrent_vars, spell_vars,
                   active_connections, sent>>

\* run_spell (routers/spells.py lines 21-51) up to its await: a SpellRun row with
\* status "running" is committed under a new run_id, and the request then waits
\* in spell_simulator.execute_spell, which sleeps (asyncio.sleep) and so lets
\* other requests run
RunSpellBegin(run) ==
    /\ run \notin DOMAIN spell_status
    /\ run = Len(spell_status) + 1
    /\ spell_status' = Append(spell_status, "running")
    /\ spell_request' = Append(spell_request, "awaiting")
    /\ UNCHANGED <<merchant_graph_nodes, merchant_graph_edges, transaction_graph,
                   risk_cache, now, history, seen, recorded, computed_for, ncalls,
                   nticks, concurrent_vars, alert_vars>>

\* run_spell (routers/spells.py lines 52-99) once execute_spell has returned:
\* the row the request holds is set to "completed" and committed, without being
\* read again, and a spell_alert is scheduled for flagged transactions
RunSpellComplete(run, flagged_transactions) ==
    /\ run \in DOMAIN spell_request
    /\ spell_request[run] = "awaiting"
    /\ flagged_transactions > 0 => nalerts < MaxAlerts
    /\ spell_status' = [spell_status EXCEPT ![run] = "completed"]
    /\ spell_request' = [spell_request EXCEPT ![run] = "returned"]
    /\ IF flagged_transactions > 0
       THEN ScheduleAlert("spell_alert")
       ELSE UNCHANGED <<background_tasks, owed, nalerts>>
    /\ UNCHANGED <<merchant_graph_nodes, merchant_graph_edges, transaction_graph,
                   risk_cache, now, history, seen, recorded, computed_for, ncalls,
                   nticks, concurrent_vars, active_connections, sent, ingested>>

\* cancel_spell (routers/spells.py lines 207-229): 404 for an unknown run_id and
\* 400 for a run that is not "running" change nothing; a running one is set to
\* "cancelled" and committed
CancelSpell(run) ==
    /\ run \in DOMAIN spell_status
    /\ spell_status[run] = "running"
    /\ spell_status' = [spell_status EXCEPT ![run] = "cancelled"]
    /\ UNCHANGED <<merchant_graph_nodes, merchant_graph_edges, transaction_graph,
                   risk_cache, now, history, seen, recorded, computed_for, ncalls,
                   nticks, concurrent_vars, alert_vars, spell_request>>

\* WebSocketManager.broadcast_alert (lines 48-72) on one manager: nothing happens
\* without active connections; otherwise the message goes to every connection
\* whose send_text does not raise, and the others are disconnected
broadcast_alert(manager, alert, failed) ==
    /\ sent' = [c \in Clients |->
                  IF c \in active_connections[manager] \ failed
                  THEN sent[c] \cup {alert} ELSE sent[c]]
    /\ active_connections' = [active_connections EXCEPT ![manager] = @ \ failed]
    /\ owed' = IF manager = EndpointManager THEN StillOwed(failed) ELSE owed

\* a scheduled broadcast runs after the response of its request has been sent
BroadcastAlert(task, failed) ==
    /\ task \in background_tasks
    /\ failed \subseteq active_connections[task.manager]
    /\ broadcast_alert(task.manager, task.alert, failed)
    /\ background_tasks' = background_tasks \ {task}
    /\ UNCHANGED <<merchant_graph_nodes, merchant_graph_edges, transaction_graph,
                   risk_cache, now, history, seen, recorded, computed_for, ncalls,
                   nticks, concurrent_vars, spell_vars, nalerts, ingested>>

RunBackgroundTask ==
    \E task \in background_tasks :
        \E failed \in SUBSET active_connections[task.manager] :
            BroadcastAlert(task, failed)

\* start_alert_simulator (lines 122-141), started by main.py line 63 on the
\* manager of main.py: a generated alert is broadcast when a client is connected
AlertSimulator(failed) ==
    /\ active_connections[EndpointManager] # {}
    /\ failed \subseteq active_connections[EndpointManager]
    /\ broadcast_alert(EndpointManager, SimulatedAlert, failed)
    /\ UNCHANGED <<merchant_graph_nodes, merchant_graph_edges, transaction_graph,
                   risk_cache, now, history, seen, recorded, computed_for, ncalls,
                   nticks, concurrent_vars, spell_vars, background_tasks, nalerts, ingested>>

NextAlerts ==
    \/ \E c \in Clients : Connect(c)
    \/ \E c \in Clients : Disconnect(c)
    \/ \E user_id \in ValidUserIds, merchant_id \in ValidMerchantIds,
          fraud_score \in FraudScores :
          CreateTransaction(user_id, merchant_id, fraud_score)
    \/ \E run \in SpellRuns : RunSpellBegin(run)
    \/ \E run \in SpellRuns, flagged_transactions \in FlaggedCounts :
          RunSpellComplete(run, flagged_transactions)
    \/ \E run \in SpellRuns : CancelSpell(run)
    \/ RunBackgroundTask
    \/ \E failed \in SUBSET Clients : AlertSimulator(failed)

\* Starlette runs every task added to BackgroundTasks once the response is sent
SpecAlerts == Init /\ [][NextAlerts]_vars /\ WF_vars(RunBackgroundTask)

\* C20: whenever a client was connected through /ws/alerts at the moment a
\* handler raised an alert, that alert is eventually sent on the client's
\* connection, unless that connection is closed first.
C20_AlertEventuallySent ==
    \A c \in Clients, kind \in {"fraud_alert", "spell_alert"}, id \in 1..MaxAlerts :
        (<<c, [kind |-> kind, id |-> id]>> \in owed)
            ~> ([kind |-> kind, id |-> id] \in sent[c]
                   \/ <<c, [kind |-> kind, id |-> id]>> \notin owed)

\* C21: in every reachable state, every transaction that create_transaction has
\* accepted for (user U, merchant M) is in the analyzer's graph: U and M are
\* nodes, an edge joins them, and analyze_merchant_risk(M) does not take the
\* unknown-merchant branch.
C21_IngestedTransactionIsRecorded ==
    \A p \in ingested :
        /\ p[1] \in DOMAIN merchant_graph_nodes
        /\ p[2] \in DOMAIN merchant_graph_nodes
        /\ EdgeKey(p[1], p[2]) \in DOMAIN merchant_graph_edges
        /\ Analyze(p[2], NoUser, "none").branch # "unknown"

\* C30: a cancelled spell run stays cancelled: once cancel_spell has set a run's
\* status from "running" to "cancelled", no later step changes that status, the
\* run_spell request that was awaiting execute_spell at that moment included.
C30_CancelledStaysCancelled ==
    [][\A run \in DOMAIN spell_status :
          spell_status[run] = "cancelled" => spell_status'[run] = "cancelled"]_vars

\* the nodes created as merchants
Merchants(nodes) == {n \in DOMAIN nodes : nodes[n].node_type = "merchant"}

\* C22: for every merchant of the graph whose velocity analysis completes, the
\* "High transaction velocity" factor and its 0.3 are present exactly when
\* total_transactions / max(time_span_hours, 1) exceeds 100; a span between zero
\* and one hour counts as one hour.
C22_VelocityOneHourFloor ==
    \A m \in Merchants(merchant_graph_nodes) :
        LET v == analyze_velocity(merchant_graph_nodes, m, "none")
            data == merchant_graph_nodes[m]
            floored == Max(data.last_seen - data.first_seen, SecondsPerHour)
        IN  ~v.raised =>
               (HasFactor(v, "High transaction velocity")
                   <=> data.total_transactions * SecondsPerHour
                          > velocity_threshold * floored)

\* the analysis of merchant_id computed on the current graphs, the cache left aside
Fresh(merchant_id, user_id) ==
    ComputeRisk(merchant_graph_nodes, merchant_graph_edges, transaction_graph,
                merchant_id, user_id, "none", FALSE)

\* C23: for every merchant of a graph with more than one node, of any size, whose
\* degree centrality degree / (n - 1) exceeds 0.8, the analysis carries 0.3 for
\* centrality and lists a "High degree centrality" factor.
C23_HighDegreeCentralityCounts ==
    \A m \in Merchants(merchant_graph_nodes) :
        LET n == Cardinality(DOMAIN merchant_graph_nodes)
        IN  (n > 1 /\ 5 * degree(merchant_graph_edges, m) > 4 * (n - 1)) =>
               /\ HasFactor(Fresh(m, NoUser).result, "High degree centrality")
               /\ Fresh(m, NoUser).result.centrality_metrics.risk_contribution >= 3

\* C24: whenever analyze_merchant_risk computes the analysis of a known merchant
\* without error, the risk_score it returns is min(1.0, centrality + clustering
\* + velocity + 0.1 for each entry of network_anomalies + relationship), and the
\* relationship adds nothing when no user_id is supplied.
C24_ScoreIsClampedSum ==
    \A m \in QueryMerchants, u \in QueryUsers :
        LET r == Analyze(m, u, "none")
            relationship == IF u = NoUser THEN 0
                            ELSE analyze_user_merchant_relationship(
                                     merchant_graph_edges, u, m).risk_contribution
        IN  r.branch = "computed" =>
               r.result.risk_score
                   = Min(10, r.result.centrality_metrics.risk_contribution
                             + r.result.clustering_metrics.risk_contribution
                             + r.result.velocity_metrics.risk_contribution
                             + Len(r.result.network_anomalies)
                             + relationship)

C24_Witness ==
    \E m \in QueryMerchants, u \in QueryUsers \ {NoUser} :
        LET r == Analyze(m, u, "none")
        IN  /\ r.branch = "computed"
            /\ Len(r.result.network_anomalies) >= 1
            /\ r.result.velocity_metrics.risk_contribution > 0
            /\ analyze_user_merchant_relationship(merchant_graph_edges, u, m)
                   .risk_contribution > 0
            /\ r.raw > 10

(***************************************************************************)
(* Invalidation: valid calls on the merchants M1 and M10, whose identities *)
(* contain one another, with room for two cache entries.                   *)
(***************************************************************************)
InvalidationEntries == 2

NextInvalidation ==
    \/ \E user_id \in ValidUserIds, merchant_id \in ValidMerchantIds,
          amount \in ValidAmounts, timestamp \in Times :
          RecordTransaction(user_id, merchant_id, amount, timestamp)
    \/ \E merchant_id \in ValidMerchantIds, user_id \in {NoUser} \cup ValidUserIds :
          AnalyzeCall(merchant_id, user_id, "none", FALSE, InvalidationEntries)
    \/ \E d \in TickSteps : Tick(d)

SpecInvalidation == Init /\ [][NextInvalidation]_vars

\* C25: in every reachable state, a call add_transaction_edge(u, m) that returns
\* leaves in the cache exactly the entries whose key contains neither u nor m as
\* a substring, each with the result and timestamp it had.
C25_InvalidationBySubstring ==
    \A c \in Calls :
        LET r == Record(c[1], c[2], c[3], c[4])
        IN  ~r.raised =>
               /\ DOMAIN r.cache
                     = {key \in DOMAIN risk_cache :
                           ~IsSubstring(c[1], key) /\ ~IsSubstring(c[2], key)}
               /\ \A key \in DOMAIN r.cache : r.cache[key] = risk_cache[key]

\* a call touching M1 removes the entry computed for M10, and a call touching
\* M10 removes one entry and keeps another
C25_Witness ==
    /\ \E key \in DOMAIN risk_cache :
          /\ computed_for[key][1] = M10
          /\ ~Record(U1, M1, 2, 0).raised
          /\ key \notin DOMAIN Record(U1, M1, 2, 0).cache
    /\ LET r == Record(U1, M10, 2, 0)
       IN  /\ ~r.raised
           /\ DOMAIN r.cache # {}
           /\ DOMAIN r.cache # DOMAIN risk_cache

\* the types of the nodes of a set
NodeTypes(nodes, S) == {nodes[x].node_type : x \in S}

\* the calls made so far that used an identity in the role it does not have, or
\* the same identity in both roles
RoleReuse ==
    {p \in DOMAIN history :
        \/ p[1] = p[2]
        \/ p[1] \in Merchants(merchant_graph_nodes)
        \/ p[2] \in DOMAIN merchant_graph_nodes \ Merchants(merchant_graph_nodes)}

\* C26: in every reachable state, every edge of the interaction graph and every
\* arc of the flow graph joins a node of type user and a node of type merchant and
\* none is a self-loop; and no step changes the node_type of a node or removes a
\* node.
C26_Bipartite ==
    /\ [](/\ \A e \in DOMAIN merchant_graph_edges :
                /\ Cardinality(e) = 2
                /\ NodeTypes(merchant_graph_nodes, e) = {"user", "merchant"}
          /\ \A a \in DOMAIN transaction_graph :
                /\ a[1] # a[2]
                /\ merchant_graph_nodes[a[1]].node_type = "user"
                /\ merchant_graph_nodes[a[2]].node_type = "merchant")
    /\ [][\A x \in DOMAIN merchant_graph_nodes :
             /\ x \in DOMAIN merchant_graph_nodes'
             /\ merchant_graph_nodes'[x].node_type = merchant_graph_nodes[x].node_type]_vars

\* a call has reused an identity in the other role, and the graphs hold an edge
\* and an arc
C26_Witness ==
    /\ \E p \in RoleReuse : p[1] # p[2]
    /\ DOMAIN merchant_graph_edges # {}
    /\ DOMAIN transaction_graph # {}

\* C27: in every reachable state, a call add_transaction_edge that raises leaves
\* the nodes with their attributes, the edges, the flow arcs and the cache exactly
\* as they were before the call.
C27_FailedCallChangesNothing ==
    \A c \in Calls :
        LET r == Record(c[1], c[2], c[3], c[4])
        IN  r.raised =>
               /\ r.nodes = merchant_graph_nodes
               /\ r.edges = merchant_graph_edges
               /\ r.arcs = transaction_graph
               /\ r.cache = risk_cache

\* C28: in every reachable state, a call analyze_merchant_risk(M, u) that answers
\* from the cache returns what the computation on the current graphs returns.
C28_CachedEqualsFresh ==
    \A m \in ValidMerchantIds, u \in {NoUser} \cup ValidUserIds :
        LET r == Analyze(m, u, "none")
        IN  r.branch = "cached" => r.result = Fresh(m, u).result

\* the identities a caller may pass to analyze_merchant_risk in either position
AnyIds == UserIds \cup MerchantIds \cup QueryMerchants

====
